---------------------------- MODULE Spec2Model ----------------------------
(***************************************************************************)
(* A model of opt6502, the 6502-family assembly optimizer, as built from   *)
(* src/src (main.c and the AST passes).  The input file is a sequence of   *)
(* tokenized lines; main() reads it line by line through add_line_ast,     *)
(* then runs optimize_program_ast and write_output_ast.  Every pass of the *)
(* scheduler is one action; a pass walks the node list from the root and   *)
(* mutates it in place, which the pass operators below reproduce by        *)
(* threading the program and the rewrite counter through the walk.         *)
(***************************************************************************)
EXTENDS Integers, Sequences, FiniteSets, TLC

VARIABLES
    input,          \* lines of the input file not yet read (main.c fgets loop)
    prog,           \* the node list rooted at prog->root, in input order
    opt_enabled,    \* Program.opt_enabled
    cpu_type,       \* Program.cpu_type
    trace_level,    \* Program.trace_level
    optimizations,  \* Program.optimizations
    prev_opts,      \* optimize_program_ast: prev_opts
    pass,           \* optimize_program_ast: pass
    pc,             \* position in main / optimize_program_ast
    run,            \* how many times optimize_program_ast has been entered
    prog0,          \* history: the node list as left by the reader
    first,          \* history: node list and counter left by the first run
    sched,          \* history: the passes executed in the current run, in order
    out             \* the body written by write_output_ast

vars == << input, prog, opt_enabled, cpu_type, trace_level, optimizations,
           prev_opts, pass, pc, run, prog0, first, sched, out >>

-----------------------------------------------------------------------------
(* Bounds of the model.                                                    *)

MaxLen == 3
MaxStores == 3
MaxTail == 1
ChainLen == 4

(* Program constants.                                                      *)

MaxPasses == 10

NULL == "<NULL>"

CpuTypes == {"CPU_6502", "CPU_65C02", "CPU_65816", "CPU_45GS02"}

-----------------------------------------------------------------------------
(* Input lines, as the tokens the generic dialect's parser sees.  col0 is  *)
(* what stands in the first column: white space ("ws"), a label token      *)
(* followed by a colon ("tok"), an instruction written without a label     *)
(* ("bare"), a comment start ("cmt") or the end of the line ("eol").       *)

Ins(op, arg) ==
    [col0 |-> "ws", label |-> NULL, opcode |-> op, operand |-> arg, comment |-> NULL]

Lbl(l, op, arg) ==
    [col0 |-> "tok", label |-> l, opcode |-> op, operand |-> arg, comment |-> NULL]

AtColumn0(op, arg) ==
    [col0 |-> "bare", label |-> NULL, opcode |-> op, operand |-> arg, comment |-> NULL]

Cmt(text) ==
    [col0 |-> "cmt", label |-> NULL, opcode |-> NULL, operand |-> NULL, comment |-> text]

BlankLine ==
    [col0 |-> "ws", label |-> NULL, opcode |-> NULL, operand |-> NULL, comment |-> NULL]

EmptyLine ==
    [col0 |-> "eol", label |-> NULL, opcode |-> NULL, operand |-> NULL, comment |-> NULL]

(* operand[0] == '#' over the operand texts the model uses.                *)
Immediates == {"#$00", "#0", "#1", "#2", "#$42", "#$FF", "#$80"}

IsImmediate(operand) == operand \in Immediates

-----------------------------------------------------------------------------
(* create_ast_node followed by parse_line_ast.                             *)

(* types.c: a label is local when it starts with the dialect's prefix for  *)
(* local labels ("@" in the generic dialect).                              *)
LocalLabels == {"@loop"}

is_local_label(label) == label \in LocalLabels

(* The label scan takes the token in the first column, with or without a  *)
(* colon behind it; the opcode scan takes the token after that and the     *)
(* operand scan the rest of the line.                                      *)
parse_line_ast(line, line_num) ==
    LET potential_label == line.col0 \in {"tok", "bare", "eol"}
        label   == IF ~potential_label THEN NULL
                   ELSE IF line.col0 = "tok" THEN line.label
                   ELSE IF line.col0 = "bare" THEN line.opcode
                   ELSE ""
        type    == IF line.col0 \in {"tok", "bare"} THEN "NODE_LABEL"
                   ELSE "NODE_ASM_LINE"
        second  == IF line.col0 = "bare" THEN line.operand ELSE line.opcode
        rest    == IF line.col0 = "bare" THEN NULL ELSE line.operand
        comment_next == second = NULL /\ line.comment # NULL
    IN  [ type             |-> type,
          line_num         |-> line_num,
          label            |-> label,
          opcode           |-> IF comment_next THEN NULL
                               ELSE IF second = NULL THEN "" ELSE second,
          operand          |-> IF comment_next THEN NULL
                               ELSE IF rest = NULL THEN "" ELSE rest,
          comment          |-> IF comment_next THEN NULL ELSE line.comment,
          is_dead          |-> FALSE,
          no_optimize      |-> FALSE,
          is_local_label   |-> is_local_label(label),
          is_branch_target |-> FALSE ]

(* The directive test of add_line_ast: the trimmed line starts with the    *)
(* comment delimiter and the comment text starts with #NOOPT or #OPT.      *)
DirectiveOf(line) ==
    IF line.label = NULL /\ line.opcode = NULL /\ line.comment \in {"#NOOPT", "#OPT"}
    THEN line.comment
    ELSE NULL

EnabledAfter(enabled, line) ==
    IF DirectiveOf(line) = "#NOOPT" THEN FALSE
    ELSE IF DirectiveOf(line) = "#OPT" THEN TRUE
    ELSE enabled

(* A reader that flags the node before it looks at the directive.          *)
add_line_flag_first(enabled, line, line_num) ==
    [parse_line_ast(line, line_num) EXCEPT !.no_optimize = ~enabled]

add_line_ast(enabled, line, line_num) ==
    [parse_line_ast(line, line_num)
        EXCEPT !.no_optimize = ~EnabledAfter(enabled, line)]

-----------------------------------------------------------------------------
(* Shorthands for the tests the passes make on a node.                     *)

HasNode(p, i) == i >= 1 /\ i <= Len(p)

OpIs(p, i, op) == p[i].opcode # NULL /\ p[i].opcode = op

OpIn(p, i, ops) == p[i].opcode # NULL /\ p[i].opcode \in ops

(* A head-of-loop test that lets dead records through.                     *)
SkipsNoOptimizeOnly(p, i) == p[i].no_optimize

(* A head-of-loop test that lets no_optimize records through.              *)
SkipsDeadOnly(p, i) == p[i].is_dead

Skipped(p, i) == p[i].is_dead \/ p[i].no_optimize

(* A kill that also drops the operand text.                                *)
KillDropsOperand(p, i) == [p EXCEPT ![i].is_dead = TRUE, ![i].operand = NULL]

(* A kill that flips the flag instead of setting it.                       *)
KillFlips(p, i) == [p EXCEPT ![i].is_dead = ~p[i].is_dead]

Kill(p, i) == [p EXCEPT ![i].is_dead = TRUE]

SetOpcode(p, i, op) == [p EXCEPT ![i].opcode = op]

-----------------------------------------------------------------------------
(* analysis.c                                                              *)

(* An analysis that flags only the labels some operand names.              *)
MarksReferencedLabels(p) ==
    [i \in 1..Len(p) |->
        IF p[i].type = "NODE_LABEL" /\ \E j \in 1..Len(p) : p[j].operand = p[i].label
        THEN [p[i] EXCEPT !.is_branch_target = TRUE]
        ELSE p[i]]

mark_branch_targets_ast(p) ==
    [i \in 1..Len(p) |->
        IF p[i].type = "NODE_LABEL" THEN [p[i] EXCEPT !.is_branch_target = TRUE]
        ELSE p[i]]

analyze_call_flow_ast(p) == mark_branch_targets_ast(p)

-----------------------------------------------------------------------------
(* A pass state st is the node list st.p and the rewrite counter st.n      *)
(* (prog->optimizations) as the walk has left them so far.                 *)

(* peephole.c: the body of the while loop for the node at i.               *)
PeepholeStep(st, i) ==
    LET p == st.p IN
    IF Skipped(p, i) THEN st
    ELSE IF /\ OpIs(p, i, "LDA") /\ HasNode(p, i + 1)
            /\ OpIs(p, i + 1, "STA") /\ HasNode(p, i + 2)
            /\ OpIs(p, i + 2, "LDA")
            /\ p[i].operand # NULL /\ p[i + 2].operand # NULL
            /\ p[i].operand = p[i + 2].operand
         THEN [st EXCEPT !.p = Kill(p, i + 2), !.n = st.n + 1]
         ELSE st

RECURSIVE PeepholeWalk(_, _)
PeepholeWalk(st, i) ==
    IF i > Len(st.p) THEN st ELSE PeepholeWalk(PeepholeStep(st, i), i + 1)

optimize_peephole_ast(st) == PeepholeWalk(st, 1)

(* loadstore.c                                                             *)
LoadStoreStep(st, i) ==
    LET p == st.p IN
    IF Skipped(p, i) THEN st
    ELSE IF /\ OpIs(p, i, "LDA") /\ HasNode(p, i + 1)
            /\ OpIs(p, i + 1, "STA") /\ HasNode(p, i + 2)
            /\ OpIs(p, i + 2, "LDA")
            /\ p[i].operand # NULL /\ p[i + 2].operand # NULL
            /\ p[i].operand = p[i + 2].operand
         THEN [st EXCEPT !.p = Kill(p, i + 2), !.n = st.n + 1]
         ELSE st

RECURSIVE LoadStoreWalk(_, _)
LoadStoreWalk(st, i) ==
    IF i > Len(st.p) THEN st ELSE LoadStoreWalk(LoadStoreStep(st, i), i + 1)

optimize_load_store_ast(st) == LoadStoreWalk(st, 1)

(* regusage.c                                                              *)
RegUsageStep(st, i) ==
    LET p == st.p IN
    IF Skipped(p, i) THEN st
    ELSE IF /\ OpIs(p, i, "TAX") /\ HasNode(p, i + 1)
            /\ OpIs(p, i + 1, "TXA")
         THEN [st EXCEPT !.p = Kill(Kill(p, i), i + 1), !.n = st.n + 1]
         ELSE st

RECURSIVE RegUsageWalk(_, _)
RegUsageWalk(st, i) ==
    IF i > Len(st.p) THEN st ELSE RegUsageWalk(RegUsageStep(st, i), i + 1)

optimize_register_usage_ast(st) == RegUsageWalk(st, 1)

(* constant.c: cs adds the locals a_known and last_a_value to a pass state *)
AModifiers ==
    {"ADC", "SBC", "AND", "ORA", "EOR", "LDA", "PLA", "TXA", "TYA",
     "ASL", "LSR", "ROL", "ROR"}

ConstPropStep(cs, i) ==
    LET p == cs.p IN
    IF p[i].is_dead \/ p[i].is_branch_target \/ p[i].no_optimize
    THEN [cs EXCEPT !.a_known = FALSE]
    ELSE IF OpIs(p, i, "LDA") /\ p[i].operand # NULL /\ IsImmediate(p[i].operand)
    THEN [cs EXCEPT !.last_a_value = p[i].operand, !.a_known = TRUE]
    ELSE IF /\ cs.a_known /\ OpIs(p, i, "LDA")
            /\ p[i].operand # NULL /\ p[i].operand = cs.last_a_value
    THEN [cs EXCEPT !.p = Kill(p, i), !.n = cs.n + 1]
    ELSE IF OpIn(p, i, AModifiers)
    THEN [cs EXCEPT !.a_known = FALSE]
    ELSE cs

RECURSIVE ConstPropWalk(_, _)
ConstPropWalk(cs, i) ==
    IF i > Len(cs.p) THEN cs ELSE ConstPropWalk(ConstPropStep(cs, i), i + 1)

optimize_constant_propagation_ast(st) ==
    LET cs == ConstPropWalk([p |-> st.p, n |-> st.n,
                             a_known |-> FALSE, last_a_value |-> ""], 1)
    IN  [p |-> cs.p, n |-> cs.n]

(* jumps.c                                                                 *)
JumpsStep(st, i) ==
    LET p == st.p IN
    IF Skipped(p, i) THEN st
    ELSE IF /\ OpIs(p, i, "JMP") /\ HasNode(p, i + 1)
            /\ p[i + 1].is_branch_target
         THEN [st EXCEPT !.p = Kill(p, i), !.n = st.n + 1]
         ELSE st

RECURSIVE JumpsWalk(_, _)
JumpsWalk(st, i) ==
    IF i > Len(st.p) THEN st ELSE JumpsWalk(JumpsStep(st, i), i + 1)

optimize_jumps_ast(st) == JumpsWalk(st, 1)

(* deadcode.c: the inner while loop, from the node at j.                   *)
DeadRunContinues(p, j) ==
    /\ HasNode(p, j)
    /\ ~p[j].is_branch_target
    /\ p[j].label = NULL
    /\ ~p[j].no_optimize
    /\ p[j].opcode # NULL

RECURSIVE DeadRun(_, _)
DeadRun(st, j) ==
    IF DeadRunContinues(st.p, j)
    THEN DeadRun([st EXCEPT !.p = Kill(st.p, j), !.n = st.n + 1], j + 1)
    ELSE st

DeadCodeStep(st, i) ==
    LET p == st.p IN
    IF Skipped(p, i) THEN st
    ELSE IF /\ OpIn(p, i, {"JMP", "RTS", "RTI"})
            /\ HasNode(p, i + 1)
            /\ ~p[i + 1].is_branch_target
            /\ p[i + 1].label = NULL
         THEN DeadRun(st, i + 1)
         ELSE st

RECURSIVE DeadCodeWalk(_, _)
DeadCodeWalk(st, i) ==
    IF i > Len(st.p) THEN st ELSE DeadCodeWalk(DeadCodeStep(st, i), i + 1)

optimize_dead_code_ast(st) == DeadCodeWalk(st, 1)

(* An inliner without any eligibility test: it kills every call.           *)
InlinesEveryCall(st) ==
    [st EXCEPT !.p = [k \in DOMAIN st.p |->
                         IF st.p[k].opcode = "JSR"
                         THEN [st.p[k] EXCEPT !.is_dead = TRUE] ELSE st.p[k]],
               !.n = st.n + 1]

(* inline.c: a placeholder that leaves the program alone.                  *)
optimize_inline_subroutines_ast(st) == st

-----------------------------------------------------------------------------
(* cpu65c02.c                                                              *)

AUsers == {"ADC", "SBC", "AND", "ORA", "EOR", "CMP", "BIT", "PHA", "TAX", "TAY"}

ALoaders == {"LDA", "PLA", "TXA", "TYA"}

(* A zero test that knows one spelling only.                               *)
HexZeroOnly == {"#$00"}

ZeroOperands == {"#$00", "#0"}

(* The first forward scan, from the node at j: were any STA found, and is  *)
(* the accumulator's value used before it is reloaded.                     *)
RECURSIVE ZeroFirstScan(_, _, _)
ZeroFirstScan(p, j, found_sta) ==
    IF ~HasNode(p, j) \/ p[j].is_branch_target
    THEN [found_sta |-> found_sta, a_value_used |-> FALSE]
    ELSE IF Skipped(p, j) THEN ZeroFirstScan(p, j + 1, found_sta)
    ELSE IF OpIs(p, j, "STA") THEN ZeroFirstScan(p, j + 1, TRUE)
    ELSE IF OpIn(p, j, AUsers)
    THEN [found_sta |-> found_sta, a_value_used |-> TRUE]
    ELSE IF OpIn(p, j, ALoaders)
    THEN [found_sta |-> found_sta, a_value_used |-> FALSE]
    ELSE ZeroFirstScan(p, j + 1, found_sta)

(* The second forward scan: every STA met becomes STZ.                     *)
RECURSIVE ZeroSecondScan(_, _)
ZeroSecondScan(st, j) ==
    LET p == st.p IN
    IF ~HasNode(p, j) \/ p[j].is_branch_target THEN st
    ELSE IF Skipped(p, j) THEN ZeroSecondScan(st, j + 1)
    ELSE IF OpIs(p, j, "STA")
    THEN ZeroSecondScan([st EXCEPT !.p = SetOpcode(p, j, "STZ"), !.n = st.n + 1],
                        j + 1)
    ELSE IF OpIn(p, j, ALoaders \cup AUsers) THEN st
    ELSE ZeroSecondScan(st, j + 1)

Cpu65c02Step(st, i) ==
    LET p == st.p IN
    IF Skipped(p, i) THEN st
    ELSE IF OpIs(p, i, "LDA") /\ p[i].operand # NULL /\ p[i].operand \in ZeroOperands
    THEN LET scan == ZeroFirstScan(p, i + 1, FALSE) IN
         IF scan.found_sta
         THEN LET st2 == ZeroSecondScan(st, i + 1) IN
              IF ~scan.a_value_used THEN [st2 EXCEPT !.p = Kill(st2.p, i)] ELSE st2
         ELSE st
    ELSE st

RECURSIVE Cpu65c02Walk(_, _)
Cpu65c02Walk(st, i) ==
    IF i > Len(st.p) THEN st ELSE Cpu65c02Walk(Cpu65c02Step(st, i), i + 1)

(* The guard of the pass: `if (!prog->allow_65c02 || prog->is_45gs02) return;` *)
(* A gate that looks at allow_65c02 alone.                                  *)
RunsWhenAllowed(allow_65c02, is_45gs02) == allow_65c02

Runs65c02(allow_65c02, is_45gs02) == allow_65c02 /\ ~is_45gs02

optimize_65c02_instructions_ast(st, allow_65c02, is_45gs02) ==
    IF Runs65c02(allow_65c02, is_45gs02) THEN Cpu65c02Walk(st, 1) ELSE st

-----------------------------------------------------------------------------
(* cpu45gs02.c: the four rules, applied in turn to the node at i.          *)

(* The repeated-store rule without the comparison of the two immediates.   *)
ZRepeatedStoreAnyValue(st, i) ==
    LET p == st.p IN
    IF /\ OpIs(p, i, "LDA") /\ p[i].operand # NULL /\ IsImmediate(p[i].operand)
       /\ HasNode(p, i + 1) /\ OpIs(p, i + 1, "STA")
       /\ HasNode(p, i + 2) /\ OpIs(p, i + 2, "LDA")
       /\ p[i + 2].operand # NULL /\ IsImmediate(p[i + 2].operand)
       /\ HasNode(p, i + 3) /\ OpIs(p, i + 3, "STA")
       /\ ~p[i + 1].no_optimize /\ ~p[i + 2].no_optimize /\ ~p[i + 3].no_optimize
    THEN [st EXCEPT
            !.p = SetOpcode(Kill(SetOpcode(SetOpcode(p, i, "LDZ"), i + 1, "STZ"),
                                 i + 2), i + 3, "STZ"),
            !.n = st.n + 1]
    ELSE st

ZRepeatedStore(st, i) ==
    LET p == st.p IN
    IF /\ OpIs(p, i, "LDA") /\ p[i].operand # NULL /\ IsImmediate(p[i].operand)
       /\ HasNode(p, i + 1) /\ OpIs(p, i + 1, "STA")
       /\ HasNode(p, i + 2) /\ OpIs(p, i + 2, "LDA")
       /\ p[i + 2].operand # NULL /\ IsImmediate(p[i + 2].operand)
       /\ HasNode(p, i + 3) /\ OpIs(p, i + 3, "STA")
       /\ ~p[i + 1].no_optimize /\ ~p[i + 2].no_optimize /\ ~p[i + 3].no_optimize
       /\ p[i].operand = p[i + 2].operand
    THEN [st EXCEPT
            !.p = SetOpcode(Kill(SetOpcode(SetOpcode(p, i, "LDZ"), i + 1, "STZ"),
                                 i + 2), i + 3, "STZ"),
            !.n = st.n + 1]
    ELSE st

RECURSIVE LdzScan(_, _, _)
LdzScan(st, i, j) ==
    LET p == st.p IN
    IF ~HasNode(p, j) THEN st
    ELSE IF Skipped(p, j) THEN LdzScan(st, i, j + 1)
    ELSE IF OpIs(p, j, "STA") /\ ~p[j].is_branch_target
    THEN LdzScan([st EXCEPT !.p = SetOpcode(p, j, "STZ"), !.n = st.n + 1], i, j + 1)
    ELSE IF /\ OpIs(p, j, "LDA")
            /\ p[j].operand # NULL /\ p[i].operand # NULL
            /\ p[j].operand = p[i].operand
            /\ HasNode(p, j + 1) /\ OpIs(p, j + 1, "STA")
    THEN LdzScan([st EXCEPT !.p = SetOpcode(Kill(p, j), j + 1, "STZ"),
                            !.n = st.n + 1], i, j + 2)
    ELSE IF OpIn(p, j, {"LDA", "LDZ", "TAX", "TAY"}) THEN st
    ELSE LdzScan(st, i, j + 1)

ZExistingLdz(st, i) ==
    LET p == st.p IN
    IF OpIs(p, i, "LDZ") /\ p[i].operand # NULL /\ IsImmediate(p[i].operand)
    THEN LdzScan(st, i, i + 1)
    ELSE st

ZNeg(st, i) ==
    LET p == st.p IN
    IF /\ OpIs(p, i, "EOR") /\ p[i].operand # NULL /\ p[i].operand = "#$FF"
       /\ HasNode(p, i + 1) /\ OpIs(p, i + 1, "SEC")
       /\ HasNode(p, i + 2) /\ OpIs(p, i + 2, "ADC")
       /\ p[i + 2].operand # NULL /\ p[i + 2].operand = "#$00"
       /\ ~p[i + 1].no_optimize /\ ~p[i + 2].no_optimize
       /\ ~p[i + 2].is_branch_target
    THEN [st EXCEPT
            !.p = Kill(Kill([p EXCEPT ![i].opcode = "NEG", ![i].operand = NULL],
                            i + 1), i + 2),
            !.n = st.n + 1]
    ELSE st

ZAsr(st, i) ==
    LET p == st.p IN
    IF /\ OpIs(p, i, "CMP") /\ p[i].operand # NULL /\ p[i].operand = "#$80"
       /\ HasNode(p, i + 1) /\ OpIs(p, i + 1, "ROR")
       /\ ~p[i + 1].no_optimize
       /\ ~p[i + 1].is_branch_target
    THEN [st EXCEPT
            !.p = Kill([p EXCEPT ![i].opcode = "ASR", ![i].operand = NULL], i + 1),
            !.n = st.n + 1]
    ELSE st

Cpu45gs02Step(st, i) ==
    IF Skipped(st.p, i) THEN st
    ELSE ZAsr(ZNeg(ZExistingLdz(ZRepeatedStore(st, i), i), i), i)

RECURSIVE Cpu45gs02Walk(_, _)
Cpu45gs02Walk(st, i) ==
    IF i > Len(st.p) THEN st ELSE Cpu45gs02Walk(Cpu45gs02Step(st, i), i + 1)

(* The guard of the pass: `if (!prog->is_45gs02) return;`                  *)
(* A gate that is always open.                                             *)
RunsAlways(is_45gs02) == TRUE

Runs45gs02(is_45gs02) == is_45gs02

optimize_45gs02_instructions_ast(st, is_45gs02) ==
    IF Runs45gs02(is_45gs02) THEN Cpu45gs02Walk(st, 1) ELSE st

-----------------------------------------------------------------------------
(* analysis/registers.c: the Register/Flag Tracker, restricted to what it  *)
(* records about the registers A, X, Y and Z (known, value, zero).         *)

RegisterNames == {"a", "x", "y", "z"}

UnknownRegister == [known |-> FALSE, value |-> "", zero |-> FALSE]

InitialRegisterState == [r \in RegisterNames |-> UnknownRegister]

(* strcmp(operand, "#$00") == 0 || strcmp(operand, "#0") == 0              *)
TrackerZero(operand) == operand \in {"#$00", "#0"}

(* !node->operand || node->operand[0] == 'A' || node->operand[0] == 'a'    *)
AccumulatorMode(operand) == operand = NULL \/ operand \in {"A", "a"}

(* LDA, LDX, LDY, LDZ: an immediate operand is remembered, any other       *)
(* operand makes the register unknown.                                     *)
TrackLoad(state, r, operand) ==
    IF operand # NULL /\ IsImmediate(operand)
    THEN [state EXCEPT ![r] = [known |-> TRUE, value |-> operand,
                               zero |-> TrackerZero(operand)]]
    ELSE [state EXCEPT ![r] = UnknownRegister]

(* TAX, TXA, TAY, TYA: `known` is copied, value and zero only when the     *)
(* source is known.                                                        *)
TrackTransfer(state, from, to) ==
    IF state[from].known
    THEN [state EXCEPT ![to] = state[from]]
    ELSE [state EXCEPT ![to].known = FALSE]

Forget(state, r) == [state EXCEPT ![r].known = FALSE]

update_register_state(node, state) ==
    LET op == node.opcode IN
    IF op = NULL THEN state
    ELSE IF op = "LDA" THEN TrackLoad(state, "a", node.operand)
    ELSE IF op = "LDX" THEN TrackLoad(state, "x", node.operand)
    ELSE IF op = "LDY" THEN TrackLoad(state, "y", node.operand)
    ELSE IF op = "LDZ" THEN TrackLoad(state, "z", node.operand)
    ELSE IF op = "TAX" THEN TrackTransfer(state, "a", "x")
    ELSE IF op = "TXA" THEN TrackTransfer(state, "x", "a")
    ELSE IF op = "TAY" THEN TrackTransfer(state, "a", "y")
    ELSE IF op = "TYA" THEN TrackTransfer(state, "y", "a")
    ELSE IF op = "TSX" THEN Forget(state, "x")
    ELSE IF op \in {"INX", "DEX"}
    THEN [state EXCEPT !["x"].known = FALSE,
                       !["x"].zero = IF op = "INX" THEN FALSE ELSE @]
    ELSE IF op \in {"INY", "DEY"}
    THEN [state EXCEPT !["y"].known = FALSE,
                       !["y"].zero = IF op = "INY" THEN FALSE ELSE @]
    ELSE IF op \in {"INC", "DEC", "ASL", "LSR", "ROL", "ROR"}
    THEN IF AccumulatorMode(node.operand) THEN Forget(state, "a") ELSE state
    ELSE IF op \in {"ADC", "SBC", "AND", "ORA", "EOR", "PLA", "NEG", "ASR"}
    THEN Forget(state, "a")
    ELSE IF op = "JSR"
    THEN Forget(Forget(Forget(Forget(state, "a"), "x"), "y"), "z")
    ELSE state

(* The reset at a branch target in validate_register_and_flag_tracking.    *)
ResetAtBranchTarget(node, state) ==
    IF node.is_branch_target
    THEN Forget(Forget(Forget(Forget(state, "a"), "x"), "y"), "z")
    ELSE state

(* The loop of validate_register_and_flag_tracking, stopped in front of    *)
(* node i: the tracker's state just before that node.                      *)
RECURSIVE TrackerWalk(_, _, _, _)
TrackerWalk(p, state, k, i) ==
    IF k >= i \/ k > Len(p) THEN state
    ELSE IF p[k].opcode = NULL THEN TrackerWalk(p, state, k + 1, i)
    ELSE TrackerWalk(p, ResetAtBranchTarget(p[k],
                            update_register_state(p[k], state)), k + 1, i)

TrackerBefore(p, i) == TrackerWalk(p, InitialRegisterState, 1, i)

(* The tracker's record of the Negative and Zero flags.                    *)
InitialFlagState ==
    [n_known |-> FALSE, n_set |-> FALSE, z_flag_known |-> FALSE, z_flag_set |-> FALSE]

UnknownFlags(flags) == [flags EXCEPT !.n_known = FALSE, !.z_flag_known = FALSE]

(* LDA, LDX, LDY, LDZ: an immediate operand makes both flags known, Zero   *)
(* as the register's zero and Negative clear; any other operand makes      *)
(* both unknown (LDA also clears the two values).                          *)
TrackLoadFlags(flags, r, operand) ==
    IF operand # NULL /\ IsImmediate(operand)
    THEN [n_known |-> TRUE, n_set |-> FALSE,
          z_flag_known |-> TRUE, z_flag_set |-> TrackerZero(operand)]
    ELSE IF r = "a" THEN InitialFlagState
    ELSE UnknownFlags(flags)

(* TAX, TXA, TAY, TYA: the flags are known when the source register is.    *)
TrackTransferFlags(flags, from) ==
    [flags EXCEPT !.n_known = from.known,
                  !.z_flag_known = from.known,
                  !.z_flag_set = IF from.known THEN from.zero ELSE @]

FlagClobbers ==
    {"TSX", "INX", "INY", "DEX", "DEY", "INC", "DEC", "ADC", "SBC", "AND", "ORA",
     "EOR", "ASL", "ROL", "ROR", "CMP", "CPX", "CPY", "PLA", "PLP", "RTI", "JSR",
     "NEG", "ASR", "BIT"}

(* The flag part of update_register_state; state is the register state    *)
(* in front of the node.                                                   *)
update_flag_state(node, state, flags) ==
    LET op == node.opcode IN
    IF op = NULL THEN flags
    ELSE IF op = "LDA" THEN TrackLoadFlags(flags, "a", node.operand)
    ELSE IF op = "LDX" THEN TrackLoadFlags(flags, "x", node.operand)
    ELSE IF op = "LDY" THEN TrackLoadFlags(flags, "y", node.operand)
    ELSE IF op = "LDZ" THEN TrackLoadFlags(flags, "z", node.operand)
    ELSE IF op \in {"TAX", "TAY"} THEN TrackTransferFlags(flags, state["a"])
    ELSE IF op = "TXA" THEN TrackTransferFlags(flags, state["x"])
    ELSE IF op = "TYA" THEN TrackTransferFlags(flags, state["y"])
    ELSE IF op = "LSR"
    THEN [flags EXCEPT !.n_known = TRUE, !.n_set = FALSE, !.z_flag_known = FALSE]
    ELSE IF op \in FlagClobbers THEN UnknownFlags(flags)
    ELSE flags

ResetFlagsAtBranchTarget(node, flags) ==
    IF node.is_branch_target THEN UnknownFlags(flags) ELSE flags

(* The same loop for the flags: the flag state just before node i.         *)
RECURSIVE FlagWalk(_, _, _, _, _)
FlagWalk(p, state, flags, k, i) ==
    IF k >= i \/ k > Len(p) THEN flags
    ELSE IF p[k].opcode = NULL THEN FlagWalk(p, state, flags, k + 1, i)
    ELSE FlagWalk(p,
                  ResetAtBranchTarget(p[k], update_register_state(p[k], state)),
                  ResetFlagsAtBranchTarget(p[k], update_flag_state(p[k], state, flags)),
                  k + 1, i)

FlagsBefore(p, i) == FlagWalk(p, InitialRegisterState, InitialFlagState, 1, i)

-----------------------------------------------------------------------------
(* output.c: the body write_output_ast prints, one element per line.  A    *)
(* live node prints a line when it has a label or a non-empty opcode; a    *)
(* dead node prints a comment line when tracing is on.                     *)

has_opcode(node) == node.opcode # NULL /\ node.opcode # ""

(* An emitter that is silent about dead nodes at every trace level.        *)
OutputLinesLiveOnly(node, i, level) ==
    IF ~node.is_dead /\ (node.label # NULL \/ has_opcode(node))
    THEN << [kind    |-> "line",
             node    |-> i,
             label   |-> node.label,
             opcode  |-> IF has_opcode(node) THEN node.opcode ELSE NULL,
             operand |-> IF has_opcode(node) /\ node.operand # NULL
                            /\ node.operand # ""
                         THEN node.operand ELSE NULL] >>
    ELSE << >>

OutputLines(node, i, level) ==
    IF ~node.is_dead
    THEN IF node.label # NULL \/ has_opcode(node)
         THEN << [kind    |-> "line",
                  node    |-> i,
                  label   |-> node.label,
                  opcode  |-> IF has_opcode(node) THEN node.opcode ELSE NULL,
                  operand |-> IF has_opcode(node) /\ node.operand # NULL
                                 /\ node.operand # ""
                              THEN node.operand ELSE NULL] >>
         ELSE << >>
    ELSE IF level > 0
         THEN << [kind    |-> "removed",
                  node    |-> i,
                  label   |-> IF node.label # NULL THEN node.label ELSE "unknown",
                  opcode  |-> NULL,
                  operand |-> NULL] >>
         ELSE << >>

RECURSIVE OutputFrom(_, _, _)
OutputFrom(p, i, level) ==
    IF i > Len(p) THEN << >>
    ELSE OutputLines(p[i], i, level) \o OutputFrom(p, i + 1, level)

write_output_ast(p, level) == OutputFrom(p, 1, level)

-----------------------------------------------------------------------------
(* main.c: the flags main() derives from -cpu.                             *)

allow_65c02 == cpu_type \in {"CPU_65C02", "CPU_65816", "CPU_45GS02"}

is_45gs02 == cpu_type = "CPU_45GS02"

(* An order of calls with dead-code elimination ahead of the jump pass.    *)
DeadCodeBeforeJumps ==
    << "Peephole", "LoadStore", "RegUsage", "ConstProp",
       "Cpu65c02", "Cpu45gs02", "DeadCode", "Jumps" >>

(* optimizer.c: the order of the calls inside the do-while loop.           *)
PassOrder ==
    << "Peephole", "LoadStore", "RegUsage", "ConstProp",
       "Cpu65c02", "Cpu45gs02", "Jumps", "DeadCode" >>

PassIndex(name) == CHOOSE k \in 1..Len(PassOrder) : PassOrder[k] = name

AfterPass(name) ==
    IF PassIndex(name) < Len(PassOrder) THEN PassOrder[PassIndex(name) + 1]
    ELSE "RoundEnd"

(* A loop test that looks at the round cap alone.                          *)
LoopsToCap(opts, prev, passes) == passes < MaxPasses

(* A loop test that also goes round when the counter stood still.          *)
LoopsUnlessShrunk(opts, prev, passes) == opts >= prev /\ passes < MaxPasses

(* optimizer.c: `while (prog->optimizations > prev_opts && pass < 10)`,    *)
(* evaluated after pass++.                                                 *)
LoopAgain(opts, prev, passes) == opts > prev /\ passes < MaxPasses

PassResult(name, st) ==
    CASE name = "Peephole"  -> optimize_peephole_ast(st)
      [] name = "LoadStore" -> optimize_load_store_ast(st)
      [] name = "RegUsage"  -> optimize_register_usage_ast(st)
      [] name = "ConstProp" -> optimize_constant_propagation_ast(st)
      [] name = "Cpu65c02"  -> optimize_65c02_instructions_ast(st, allow_65c02, is_45gs02)
      [] name = "Cpu45gs02" -> optimize_45gs02_instructions_ast(st, is_45gs02)
      [] name = "Jumps"     -> optimize_jumps_ast(st)
      [] name = "DeadCode"  -> optimize_dead_code_ast(st)

-----------------------------------------------------------------------------
(* The bounded sets that the input file is drawn from.                     *)

SeqsUpTo(S, n) == UNION {[1..k -> S] : k \in 0..n}

(* Every program of up to MaxLen lines over a small alphabet.              *)
GeneralLines ==
    { Ins("LDA", "#$00"), Ins("STA", "$D020"), Ins("TAX", NULL), Ins("TXA", NULL),
      Ins("JMP", "skip"), Lbl("skip", "LDA", "#$00"),
      Cmt("#NOOPT"), Cmt("#OPT"), BlankLine }

GeneralPrograms == SeqsUpTo(GeneralLines, MaxLen)

(* A zero load, a run of one to MaxStores stores, and a tail.              *)
StoreLines ==
    { Ins("STA", "$D020"), Ins("STA", "$D021"), Lbl("loop", "STA", "$D021") }

TailLines == { Ins("ADC", "#1"), Ins("NOP", NULL), Ins("LDA", "#$00") }

ZeroStorePrograms ==
    { << Ins("LDA", z) >> \o stores \o tail :
        z \in {"#$00", "#0"},
        stores \in SeqsUpTo(StoreLines, MaxStores) \ {<< >>},
        tail \in SeqsUpTo(TailLines, MaxTail) }

(* Chains of zero loads and stores, labelled or not.                       *)
ChainLines ==
    { Ins("LDA", "#$00"), Ins("STA", "$D020"),
      Lbl("skip", "LDA", "#$00"), Lbl("loop", "STA", "$D021") }

ChainPrograms == [1..ChainLen -> ChainLines]

(* The scenarios of the specification and the idioms of the 45GS02 rules.  *)
ScenarioPrograms ==
    { << Ins("LDA", "#$00"), Ins("STA", "$D020"), Ins("STA", "$D021") >>,
      << Ins("JMP", "skip"), Ins("LDA", "#1"), Lbl("skip", "LDA", "#2") >>,
      << Ins("JMP", "skip"), BlankLine, Ins("LDA", "#1"), Lbl("skip", "LDA", "#2") >>,
      << Ins("TAX", NULL), Ins("TXA", NULL) >>,
      << Ins("NOP", NULL) >>,
      << Ins("JMP", "skip"), Lbl("loop", "STA", "$D021"),
         Lbl("skip", "LDA", "#$00") >>,
      << Cmt("note"), Ins("NOP", NULL), Cmt("#NOOPT"), Cmt("note"),
         Ins("TAX", NULL), Ins("TXA", NULL), Cmt("#OPT"), Cmt("#OPT"),
         Ins("TAX", NULL), Ins("TXA", NULL) >>,
      << Ins("LDA", "#$00"),
         [Ins("STA", "$D020") EXCEPT !.comment = "#NOOPT"],
         Ins("STA", "$D021") >>,
      << Cmt("#NOOPT"), Ins("LDA", "#$00"), Ins("STA", "$D020"), Cmt("#OPT") >>,
      << Ins("LDA", "#$00"), Cmt("#NOOPT"), Ins("STA", "$D020"), Cmt("#OPT"),
         Ins("STA", "$D021") >>,
      << Ins("LDA", "#$42"), Ins("STA", "$D020"), Ins("LDA", "#$42"),
         Ins("STA", "$D021") >>,
      << Ins("LDZ", "#$00"), Ins("STA", "$D020"), Ins("STA", "$D021") >>,
      << Ins("LDZ", "#$42"), Cmt("#NOOPT"), Ins("STA", "$D020"), Cmt("#OPT"),
         Ins("STA", "$D021") >>,
      << Ins("EOR", "#$FF"), Ins("SEC", NULL), Ins("ADC", "#$00") >>,
      << Ins("CMP", "#$80"), Ins("ROR", NULL) >>,
      << Ins("LDA", "#$00"), Ins("STA", "$D020"), Ins("CMP", "#$80"),
         Ins("ROR", NULL) >>,
      << Ins("BNE", "skip"), Ins("NOP", NULL), Lbl("skip", "LDA", "#$00"),
         Ins("STA", "$D020") >>,
      << Ins("BNE", "skip"), Ins("NOP", NULL), Lbl("skip", "TAX", NULL),
         Ins("TXA", NULL) >>,
      << Ins("LDA", "#1"), Ins("STA", "$D020"), Lbl("skip", "LDA", "#1"),
         Ins("BNE", "skip") >>,
      << Ins("LDA", "#$00"), Ins("JSR", "sub"), Ins("STA", "$D020") >>,
      << Ins("LDA", "#$00"), Ins("INC", "A"), Ins("STA", "$D020") >>,
      << Ins("LDA", "#$00"), Ins("STA", "$D020"), Lbl("loop", "STA", "$D021"),
         Ins("BNE", "loop") >>,
      << Ins("LDA", "#$42"), Ins("TAX", NULL), Ins("LDA", "#$42") >>,
      << Ins("BNE", "skip"), Ins("TAX", NULL), Lbl("skip", "TXA", NULL) >>,
      << Ins("JSR", "sub"), Ins("RTS", NULL), Lbl("sub", NULL, NULL),
         Ins("LDX", "#2"), Ins("RTS", NULL) >>,
      << Ins("JSR", "sub"), Ins("JSR", "sub"), Ins("RTS", NULL),
         Lbl("sub", NULL, NULL), Ins("RTS", NULL) >>,
      << Ins("JMP", "loop2"), Lbl("loop", "STA", "$D020"),
         Lbl("loop2", "RTS", NULL) >>,
      << Ins("LDA", "#1"), Ins("STA", "$D020"), Ins("LDA", "#2"),
         Ins("STA", "$D021") >>,
      << [Ins("TAX", NULL) EXCEPT !.comment = "save"], Ins("TXA", NULL) >>,
      << Lbl("@loop", "TAX", NULL), Ins("TXA", NULL), Ins("BNE", "@loop") >>,
      << Ins("LDA", "#$80"), Ins("STA", "$D020"), Ins("LDX", "$10"), Ins("RTS", NULL) >>,
      << AtColumn0("LDA", "#$00"), AtColumn0("STA", "$D020"), Ins("RTS", NULL) >>,
      << AtColumn0("TAX", NULL), Ins("TXA", NULL), Lbl("loop", "RTS", NULL) >> }

-----------------------------------------------------------------------------
(* The state machine.                                                      *)

InitOver(programs, cpus, levels) ==
    /\ input \in programs
    /\ cpu_type \in cpus
    /\ trace_level \in levels
    /\ prog = << >>
    /\ opt_enabled = TRUE
    /\ optimizations = 0
    /\ prev_opts = 0
    /\ pass = 0
    /\ pc = "Reading"
    /\ run = 0
    /\ prog0 = << >>
    /\ first = [p |-> << >>, n |-> 0]
    /\ sched = << >>
    /\ out = << >>

Init ==
    \/ InitOver(GeneralPrograms, {"CPU_6502", "CPU_65C02", "CPU_45GS02"}, {0})
    \/ InitOver(ZeroStorePrograms, {"CPU_65C02", "CPU_45GS02"}, {0})
    \/ InitOver(ChainPrograms, {"CPU_65C02", "CPU_45GS02"}, {0})
    \/ InitOver(ScenarioPrograms, CpuTypes, {0, 1, 2})

(* main.c: one turn of the fgets loop.                                     *)
ReadLine ==
    /\ pc = "Reading"
    /\ input # << >>
    /\ prog' = Append(prog, add_line_ast(opt_enabled, Head(input), Len(prog)))
    /\ opt_enabled' = EnabledAfter(opt_enabled, Head(input))
    /\ input' = Tail(input)
    /\ UNCHANGED << cpu_type, trace_level, optimizations, prev_opts, pass, pc,
                    run, prog0, first, sched, out >>

(* main.c: end of file; optimize_program_ast is entered.                   *)
EndOfFile ==
    /\ pc = "Reading"
    /\ input = << >>
    /\ pc' = "Inlining"
    /\ run' = 1
    /\ prog0' = prog
    /\ UNCHANGED << input, prog, opt_enabled, cpu_type, trace_level, optimizations,
                    prev_opts, pass, first, sched, out >>

(* optimizer.c: the one-shot inlining attempt before the loop.             *)
Inlining ==
    /\ pc = "Inlining"
    /\ LET st == optimize_inline_subroutines_ast(
                     [p |-> analyze_call_flow_ast(prog), n |-> optimizations])
       IN  /\ prog' = st.p
           /\ optimizations' = st.n
    /\ pass' = 0
    /\ sched' = Append(sched, "Inlining")
    /\ pc' = "RoundStart"
    /\ UNCHANGED << input, opt_enabled, cpu_type, trace_level, prev_opts, run,
                    prog0, first, out >>

(* optimizer.c: the head of the do-while body.                             *)
RoundStart ==
    /\ pc = "RoundStart"
    /\ prev_opts' = optimizations
    /\ prog' = analyze_call_flow_ast(prog)
    /\ sched' = Append(sched, "Analysis")
    /\ pc' = PassOrder[1]
    /\ UNCHANGED << input, opt_enabled, cpu_type, trace_level, optimizations, pass,
                    run, prog0, first, out >>

(* optimizer.c: one rewrite pass of the round.                             *)
RunPass(name) ==
    /\ pc = name
    /\ LET st == PassResult(name, [p |-> prog, n |-> optimizations])
       IN  /\ prog' = st.p
           /\ optimizations' = st.n
    /\ sched' = Append(sched, name)
    /\ pc' = AfterPass(name)
    /\ UNCHANGED << input, opt_enabled, cpu_type, trace_level, prev_opts, pass,
                    run, prog0, first, out >>

(* optimizer.c: pass++ and the loop test.                                  *)
RoundEnd ==
    /\ pc = "RoundEnd"
    /\ pass' = pass + 1
    /\ pc' = IF LoopAgain(optimizations, prev_opts, pass + 1)
             THEN "RoundStart" ELSE "Done"
    /\ UNCHANGED << input, prog, opt_enabled, cpu_type, trace_level, optimizations,
                    prev_opts, run, prog0, first, sched, out >>

(* main.c: write_output_ast after the optimizer has returned.              *)
WriteOutput ==
    /\ pc = "Done"
    /\ out' = write_output_ast(prog, trace_level)
    /\ pc' = "Written"
    /\ UNCHANGED << input, prog, opt_enabled, cpu_type, trace_level, optimizations,
                    prev_opts, pass, run, prog0, first, sched >>

(* optimize_program_ast called a second time on the program it returned.   *)
Rerun ==
    /\ pc = "Done"
    /\ run = 1
    /\ run' = 2
    /\ first' = [p |-> prog, n |-> optimizations]
    /\ sched' = << >>
    /\ pc' = "Inlining"
    /\ UNCHANGED << input, prog, opt_enabled, cpu_type, trace_level, optimizations,
                    prev_opts, pass, prog0, out >>

Peephole == RunPass("Peephole")

LoadStore == RunPass("LoadStore")

RegUsage == RunPass("RegUsage")

ConstProp == RunPass("ConstProp")

Cpu65c02 == RunPass("Cpu65c02")

Cpu45gs02 == RunPass("Cpu45gs02")

Jumps == RunPass("Jumps")

DeadCode == RunPass("DeadCode")

Next ==
    \/ ReadLine
    \/ EndOfFile
    \/ Inlining
    \/ RoundStart
    \/ Peephole
    \/ LoadStore
    \/ RegUsage
    \/ ConstProp
    \/ Cpu65c02
    \/ Cpu45gs02
    \/ Jumps
    \/ DeadCode
    \/ RoundEnd
    \/ WriteOutput
    \/ Rerun

Spec == Init /\ [][Next]_vars

-----------------------------------------------------------------------------
(* Properties.                                                             *)

Positions == 1..Len(prog)

Optimizing == pc \notin {"Reading"}

SameInstruction(a, b) ==
    /\ a.opcode = b.opcode
    /\ a.operand = b.operand
    /\ a.is_dead = b.is_dead

(* C1: once the optimizer has been entered, every record with no_optimize  *)
(* set has the opcode, the operand and the is_dead flag it had when the    *)
(* file had just been read, after any pass of any round.                   *)
NoOptimizeInviolable ==
    Optimizing =>
        \A i \in Positions :
            prog[i].no_optimize => SameInstruction(prog[i], prog0[i])

(* A 65C02 run at Done in which a STA of a #NOOPT region follows a zero    *)
(* load and a later STA outside the region was rewritten to STZ.           *)
NoOptimizeStoreKept ==
    /\ pc = "Done"
    /\ cpu_type = "CPU_65C02"
    /\ \E i, j \in Positions :
          /\ i < j
          /\ prog[i].no_optimize
          /\ prog[i].opcode = "STA"
          /\ prog0[j].opcode = "STA"
          /\ prog[j].opcode = "STZ"

(* C2: no step of the peephole, jump-simplification or dead-code pass      *)
(* turns a live record with is_branch_target set into a dead one           *)
(* (KeepsBranchTargets is the step, BranchTargetsSurvive the property).    *)
KeepsBranchTargets ==
    pc \in {"Peephole", "Jumps", "DeadCode"} =>
        \A i \in Positions :
            (prog[i].is_branch_target /\ ~prog[i].is_dead) => ~prog'[i].is_dead

BranchTargetsSurvive == [][KeepsBranchTargets]_vars

DefinedLabels == {prog0[i].label : i \in 1..Len(prog0)} \ {NULL, ""}

(* C3: in the written output, every instruction whose operand is a label   *)
(* defined in the input is accompanied by the line that defines the label. *)
NoDanglingLabel ==
    pc = "Written" =>
        \A k \in 1..Len(out) :
            (/\ out[k].kind = "line"
             /\ out[k].opcode # NULL
             /\ out[k].operand \in DefinedLabels)
            => \E m \in 1..Len(out) :
                   out[m].kind = "line" /\ out[m].label = out[k].operand

ZOnlyOpcodes == {"NEG", "ASR", "LDZ"}

(* C4: on a 45GS02 the 65C02 pass leaves every record and the counter      *)
(* alone, on any other CPU the 45GS02 pass does, and on those CPUs no      *)
(* record has opcode NEG, ASR or LDZ unless the input had it there         *)
(* (CpuExclusiveStep is the step, CpuMutualExclusion the property).        *)
CpuExclusiveStep ==
    /\ (pc = "Cpu65c02" /\ cpu_type = "CPU_45GS02")
           => UNCHANGED << prog, optimizations >>
    /\ (pc = "Cpu45gs02" /\ cpu_type # "CPU_45GS02")
           => UNCHANGED << prog, optimizations >>
    /\ (Optimizing /\ cpu_type # "CPU_45GS02")
           => \A i \in Positions :
                  prog'[i].opcode \in ZOnlyOpcodes
                      => prog'[i].opcode = prog0[i].opcode

CpuMutualExclusion == [][CpuExclusiveStep]_vars

(* A 45GS02 run at Done whose 45GS02 pass rewrote a record, and whose zero *)
(* load and the store after it are as they were read.                      *)
ZeroStoreLeftOn45gs02 ==
    /\ pc = "Done"
    /\ cpu_type = "CPU_45GS02"
    /\ \E i \in Positions : prog[i].opcode # prog0[i].opcode
    /\ \E i \in Positions :
          /\ i < Len(prog)
          /\ prog0[i].opcode = "LDA"
          /\ prog0[i].operand \in {"#$00", "#0"}
          /\ prog0[i + 1].opcode = "STA"
          /\ SameInstruction(prog[i], prog0[i])
          /\ SameInstruction(prog[i + 1], prog0[i + 1])

(* A program that is a zero load followed by one or more STA.              *)
ZeroLoadThenStores(p) ==
    /\ Len(p) >= 2
    /\ p[1].opcode = "LDA"
    /\ p[1].operand \in {"#$00", "#0"}
    /\ \A i \in 2..Len(p) : p[i].opcode = "STA"

(* C5: on a 45GS02, a program that is LDA #$00 (or #0) followed by one or  *)
(* more STA is at Done what it was when read: the LDA alive, every STA     *)
(* still STA, the counter 0.                                               *)
ScenarioB ==
    (pc = "Done" /\ cpu_type = "CPU_45GS02" /\ ZeroLoadThenStores(prog0))
        => /\ optimizations = 0
           /\ \A i \in Positions : SameInstruction(prog[i], prog0[i])

(* A 45GS02 run at Done on a zero load and at least two STA.               *)
ScenarioBReached ==
    /\ pc = "Done"
    /\ cpu_type = "CPU_45GS02"
    /\ ZeroLoadThenStores(prog0)
    /\ Len(prog0) >= 3

(* C6: a second complete run of the scheduler, on the program the first    *)
(* run left, adds nothing to the counter and changes no record.            *)
SecondRunIdle ==
    (pc = "Done" /\ run = 2)
        => (optimizations = first.n /\ prog = first.p)

FixedRound ==
    << "Analysis", "Peephole", "LoadStore", "RegUsage", "ConstProp",
       "Cpu65c02", "Cpu45gs02", "Jumps", "DeadCode" >>

RoundPcs ==
    {"RoundStart", "Peephole", "LoadStore", "RegUsage", "ConstProp",
     "Cpu65c02", "Cpu45gs02", "Jumps", "DeadCode", "RoundEnd"}

(* How far the scheduler has got: the rounds completed, then the place in  *)
(* the current round.                                                      *)
Progress(rounds, at) ==
    rounds * 11 +
        (CASE at = "RoundStart" -> 1
           [] at = "RoundEnd"   -> 10
           [] at \in RoundPcs \ {"RoundStart", "RoundEnd"} ->
                  CHOOSE k \in 2..9 : FixedRound[k] = at
           [] OTHER -> 0)

RoundEndStep ==
    pc = "RoundEnd" =>
        /\ pass' = pass + 1
        /\ pc' \in {"RoundStart", "Done"}
        /\ pc' = "RoundStart" <=> (optimizations > prev_opts /\ pass' < 10)
        /\ pc' = "Done" => (pass' >= 1 /\ pass' <= 10)

InliningStep == pc = "Inlining" => (pc' = "RoundStart" /\ pass' = 0)

ProgressStep ==
    pc \in RoundPcs =>
        /\ pc' \in RoundPcs \cup {"Done"}
        /\ Progress(pass', pc') > Progress(pass, pc)
        /\ Progress(pass', pc') <= 10 * 11

(* C7: after a round the scheduler starts another one exactly when the     *)
(* counter grew during the round and fewer than 10 rounds have run, and    *)
(* goes to Done otherwise, so that at Done between 1 and 10 rounds have    *)
(* run; and it reaches Done, because every step inside the loop leads to   *)
(* a place of the loop or to Done and moves Progress up, which ten rounds  *)
(* bound.                                                                  *)
SchedulerLoop == [][RoundEndStep /\ InliningStep /\ ProgressStep]_vars

(* The scheduler at Done after ten rounds, the last of which still added   *)
(* to the counter.                                                         *)
RoundCapReached ==
    /\ pc = "Done"
    /\ pass = 10
    /\ optimizations > prev_opts

(* C8: the calls made since the scheduler was entered are one inlining     *)
(* attempt followed by rounds, each of them the analysis, peephole,        *)
(* load/store, register usage, constant propagation, the 65C02 and the     *)
(* 45GS02 pass, jumps and dead code, in that order; at Done the rounds     *)
(* are complete.                                                           *)
FixedSchedule ==
    /\ \A k \in 1..Len(sched) :
           sched[k] = IF k = 1 THEN "Inlining"
                      ELSE FixedRound[((k - 2) % Len(FixedRound)) + 1]
    /\ pc = "Done" => Len(sched) = 1 + pass * Len(FixedRound)

(* The scheduler at Done after more than one round.                        *)
SeveralRoundsDone ==
    /\ pc = "Done"
    /\ pass >= 2
    /\ Len(sched) = 1 + pass * 9

AccumulatorReaders ==
    {"STA", "ADC", "SBC", "AND", "ORA", "EOR", "CMP", "BIT", "PHA", "TAX", "TAY"}

(* In p, the record at i is a zero load, the k records after it are STA,   *)
(* the run of STA ends there, and no later record reads the accumulator.   *)
ZeroGroup(p, i, k) ==
    /\ k >= 1
    /\ i + k <= Len(p)
    /\ p[i].opcode = "LDA"
    /\ p[i].operand \in {"#$00", "#0"}
    /\ \A j \in (i + 1)..(i + k) : p[j].opcode = "STA"
    /\ \A j \in (i + k + 1)..Len(p) : p[j].opcode \notin AccumulatorReaders

ZeroGroupRewritten(i, k) ==
    /\ prog[i].is_dead
    /\ \A j \in (i + 1)..(i + k) :
           prog[j].opcode = "STZ" /\ prog[j].operand = prog0[j].operand

(* The group is outside every #NOOPT region and no record up to its last   *)
(* STA is a branch target.                                                 *)
ZeroGroupInTheOpen(i, k) ==
    /\ \A j \in i..(i + k) : ~prog[j].no_optimize
    /\ \A j \in 1..(i + k) : ~prog[j].is_branch_target

StopsRun(node) ==
    \/ node.label # NULL
    \/ node.is_branch_target
    \/ node.no_optimize
    \/ ~has_opcode(node)

(* The record at j lies in the run after a live, optimizable JMP, RTS or   *)
(* RTI, before the record that ends the run.                               *)
InDeadRun(p, j) ==
    \E i \in 1..(j - 1) :
        /\ p[i].opcode \in {"JMP", "RTS", "RTI"}
        /\ ~p[i].is_dead
        /\ ~p[i].no_optimize
        /\ \A m \in (i + 1)..j : ~StopsRun(p[m])

DeadCodeStep10 ==
    pc = "DeadCode" =>
        \A j \in Positions :
            IF InDeadRun(prog, j) THEN prog'[j].is_dead ELSE prog'[j] = prog[j]

(* C10: the dead-code pass marks dead every record in the run after a      *)
(* live, optimizable JMP, RTS or RTI, up to the first record that has a    *)
(* label, is a branch target, is no_optimize or has no opcode, and leaves  *)
(* every record outside such runs as it was                                *)
(* (DeadCodeStep10 is the step, DeadRunsOnly the property).                *)
DeadRunsOnly == [][DeadCodeStep10]_vars

(* The program is the two records TAX; TXA.                                *)
TransferPair(p) ==
    /\ Len(p) = 2
    /\ p[1].label = NULL /\ p[1].opcode = "TAX"
    /\ p[2].label = NULL /\ p[2].opcode = "TXA"

(* C11: for the program TAX; TXA, at Done both records are dead and the    *)
(* counter is exactly 1, whatever the number of rounds and runs.           *)
ScenarioD ==
    (pc = "Done" /\ TransferPair(prog0))
        => /\ prog[1].is_dead
           /\ prog[2].is_dead
           /\ optimizations = 1

(* TAX; TXA at Done after the round that killed the pair and the round     *)
(* that found nothing more.                                                *)
ScenarioDReached ==
    /\ pc = "Done"
    /\ TransferPair(prog0)
    /\ pass = 2
    /\ prog[1].is_dead

(* The opcodes with which some rewrite pattern starts.                     *)
PatternHeads == {"LDA", "LDZ", "TAX", "EOR", "CMP", "JMP", "RTS", "RTI"}

Inert(p) == \A i \in 1..Len(p) : p[i].opcode \notin PatternHeads

IsDirective(line, word) ==
    line.label = NULL /\ line.opcode = NULL /\ line.comment = word

(* The enabled state once the line has been seen.                          *)
LatchedAfter(enabled, line) ==
    IF IsDirective(line, "#NOOPT") THEN FALSE
    ELSE IF IsDirective(line, "#OPT") THEN TRUE
    ELSE enabled

(* What holds of every step whatever state the directive line takes: the   *)
(* state starts enabled, a directive and nothing else changes it, and the  *)
(* flag of a record that has been read never changes.                      *)
LatchFrame ==
    /\ (pc = "Reading" /\ prog = << >>) => opt_enabled
    /\ (pc = "Reading" /\ input # << >>)
           => /\ opt_enabled' = LatchedAfter(opt_enabled, Head(input))
              /\ Len(prog') = Len(prog) + 1
    /\ \A i \in Positions : prog'[i].no_optimize = prog[i].no_optimize

LatchStepAsStated ==
    /\ LatchFrame
    /\ (pc = "Reading" /\ input # << >>)
           => prog'[Len(prog) + 1].no_optimize = ~opt_enabled

LatchStep ==
    /\ LatchFrame
    /\ (pc = "Reading" /\ input # << >>)
           => prog'[Len(prog) + 1].no_optimize
                  = ~LatchedAfter(opt_enabled, Head(input))

LinesOf(i) == {k \in 1..Len(out) : out[k].node = i}

(* C14: in the written body the lines come in the order of the records,    *)
(* at most one per record; a live record with an opcode has exactly one    *)
(* line, carrying that opcode; a dead record has no line at trace level 0  *)
(* and exactly one comment line, in its place, at trace level 1 or more.   *)
Emitter ==
    pc = "Written" =>
        /\ \A k \in 1..(Len(out) - 1) : out[k].node < out[k + 1].node
        /\ \A i \in Positions :
               IF prog[i].is_dead
               THEN IF trace_level = 0
                    THEN LinesOf(i) = {}
                    ELSE /\ Cardinality(LinesOf(i)) = 1
                         /\ \A k \in LinesOf(i) : out[k].kind = "removed"
               ELSE prog[i].opcode \notin {NULL, ""}
                        => /\ Cardinality(LinesOf(i)) = 1
                           /\ \A k \in LinesOf(i) :
                                  /\ out[k].kind = "line"
                                  /\ out[k].opcode = prog[i].opcode

(* A body written with tracing on, in which a comment line for a dead      *)
(* record stands before the line of a live instruction.                    *)
TraceLineWritten ==
    /\ pc = "Written"
    /\ trace_level >= 1
    /\ \E k \in 1..(Len(out) - 1) :
          /\ out[k].kind = "removed"
          /\ out[k + 1].kind = "line"
          /\ out[k + 1].opcode # NULL

JumpsStep15 ==
    pc = "Jumps" =>
        \A i \in Positions :
            (~prog[i].is_dead /\ prog'[i].is_dead)
                => /\ prog[i].opcode = "JMP"
                   /\ i < Len(prog)
                   /\ prog[i + 1].label \notin {NULL, ""}
                   /\ prog[i].operand = prog[i + 1].label

(* C15: the jump pass kills a record only if it is a JMP whose operand is  *)
(* the label that the record immediately after it defines                  *)
(* (JumpsStep15 is the step, JumpToNextOnly the property).                 *)
JumpToNextOnly == [][JumpsStep15]_vars

(* The instructions of p that still execute: a dead record has none.       *)
Executed(p) ==
    [k \in DOMAIN p |-> IF p[k].is_dead THEN [p[k] EXCEPT !.opcode = NULL]
                        ELSE p[k]]

(* Two tracked registers hold the same known immediate value.              *)
SameKnownValue(r, s) ==
    /\ r.known /\ s.known
    /\ r.value = s.value \/ (r.zero /\ s.zero)

StoresRewritten == { i \in Positions : prog[i].opcode = "STA" /\ prog'[i].opcode = "STZ" }

Cpu45gs02Step16 ==
    pc = "Cpu45gs02" =>
        \A i \in StoresRewritten :
            SameKnownValue(TrackerBefore(Executed(prog), i)["a"],
                           TrackerBefore(Executed(prog'), i)["z"])

(* C16: on the 45GS02 every STA rewritten to STZ stores the value it       *)
(* stored before: the accumulator is known to hold, in front of the store  *)
(* in the program before the pass, the immediate that Z holds there in     *)
(* the program after it (Cpu45gs02Step16 is the step).                     *)
StzStoresSameValue == [][Cpu45gs02Step16]_vars

Cpu65c02Step17 ==
    pc = "Cpu65c02" =>
        \A i \in StoresRewritten :
            LET a == TrackerBefore(Executed(prog), i)["a"]
            IN  a.known /\ a.zero

(* C17: the two accumulator trackers agree: in front of every STA that     *)
(* the 65C02 pass rewrites to STZ the Register/Flag Tracker, stepped over  *)
(* the same instructions, reports the accumulator known and zero           *)
(* (Cpu65c02Step17 is the step).                                           *)
TrackersAgree == [][Cpu65c02Step17]_vars

AccumulatorLoaders == {"LDA", "PLA", "TXA", "TYA"}

(* Some live record after i reads the accumulator and no live record       *)
(* between the two loads it.                                               *)
ReadBeforeNextLoad(p, i) ==
    \E j \in (i + 1)..Len(p) :
        /\ ~p[j].is_dead
        /\ p[j].opcode \in AccumulatorReaders
        /\ \A k \in (i + 1)..(j - 1) :
               p[k].is_dead \/ p[k].opcode \notin AccumulatorLoaders

Cpu65c02Step18 ==
    pc = "Cpu65c02" =>
        \A i \in Positions :
            (~prog[i].is_dead /\ prog'[i].is_dead) => ~ReadBeforeNextLoad(prog', i)

(* C18: the 65C02 pass marks the zero load dead only if, in the program it *)
(* leaves, no instruction after the load reads the accumulator before the  *)
(* accumulator is loaded again (Cpu65c02Step18 is the step).               *)
ZeroLoadKilledOnlyIfUnread == [][Cpu65c02Step18]_vars

(* Some load in front of j can have started the scan that reached j        *)
(* without a no_optimize record between the two.                           *)
HeadInSameRegion(p, j) ==
    \E i \in 1..(j - 1) :
        /\ p[i].opcode \in {"LDA", "LDZ"}
        /\ \A k \in i..(j - 1) : ~p[k].no_optimize

CpuStep19 ==
    pc \in {"Cpu65c02", "Cpu45gs02"} =>
        \A j \in StoresRewritten : HeadInSameRegion(prog, j)

(* C19: no pass treats a no_optimize record as transparent: a STA that a   *)
(* CPU pass rewrites to STZ has the load that started the scan in front    *)
(* of it with no no_optimize record between the two (CpuStep19 is the      *)
(* step).                                                                  *)
NoOptimizeOpaque == [][CpuStep19]_vars

AccumulatorModifiers ==
    {"ADC", "SBC", "AND", "ORA", "EOR", "LDA", "PLA", "TXA", "TYA",
     "ASL", "LSR", "ROL", "ROR"}

(* The record at i can take part in constant propagation.                  *)
Propagates(p, i) == ~p[i].is_dead /\ ~p[i].is_branch_target /\ ~p[i].no_optimize

(* In p the records at h < i load the same immediate into the accumulator  *)
(* and every record between them leaves the accumulator alone and is       *)
(* neither dead, nor a branch target, nor no_optimize.                     *)
RepeatedLoad(p, h, i) ==
    /\ h < i
    /\ Propagates(p, h) /\ Propagates(p, i)
    /\ p[h].opcode = "LDA" /\ p[i].opcode = "LDA"
    /\ IsImmediate(p[h].operand) /\ p[i].operand = p[h].operand
    /\ \A k \in (h + 1)..(i - 1) :
           Propagates(p, k) /\ p[k].opcode \notin AccumulatorModifiers

ConstPropStep20 ==
    pc = "ConstProp" =>
        \A i \in Positions :
            (\E h \in Positions : RepeatedLoad(prog, h, i))
                => prog'[i].is_dead /\ optimizations' > optimizations

(* C20: constant propagation kills an LDA #v whenever the last known       *)
(* accumulator value is the same immediate text and nothing between the    *)
(* two loads modifies the accumulator or is a branch target, a dead        *)
(* record or a no_optimize record, and counts the kill                     *)
(* (ConstPropStep20 is the step).                                          *)
RepeatedLoadKilled == [][ConstPropStep20]_vars

CancellingPairs == { <<"TAX", "TXA">>, <<"TAY", "TYA">>, <<"TXA", "TAX">> }

(* In p the live records at i and i + 1 are a cancelling transfer pair.    *)
LivePair(p, i) ==
    /\ i + 1 <= Len(p)
    /\ ~p[i].is_dead /\ ~p[i + 1].is_dead
    /\ << p[i].opcode, p[i + 1].opcode >> \in CancellingPairs

PairIntoBranchTarget(p, i) == LivePair(p, i) /\ p[i + 1].is_branch_target

RegUsageStep21 ==
    pc = "RegUsage" =>
        /\ \A i \in Positions :
               PairIntoBranchTarget(prog, i)
                   => ~prog'[i].is_dead /\ ~prog'[i + 1].is_dead
        /\ (\A i \in Positions : LivePair(prog, i) => PairIntoBranchTarget(prog, i))
               => optimizations' = optimizations

(* C21: the register-usage pass leaves a cancelling transfer pair alone    *)
(* when its second instruction is a branch target: both stay alive, and    *)
(* the counter is unchanged when every pair of the program is such a pair  *)
(* (RegUsageStep21 is the step).                                           *)
PairKeptAtBranchTarget == [][RegUsageStep21]_vars

DeadFinalStep ==
    \A i \in Positions :
        prog[i].is_dead
            => /\ i <= Len(prog')
               /\ prog'[i].is_dead
               /\ prog'[i].opcode = prog[i].opcode
               /\ prog'[i].operand = prog[i].operand

(* C22: dead records are final: a record that is dead stays dead in every  *)
(* later step of the run and keeps its opcode and operand                  *)
(* (DeadFinalStep is the step).                                            *)
DeadRecordsFinal == [][DeadFinalStep]_vars

(* On the 45GS02 the repeated-store rule has matched across a load that an *)
(* earlier pass had killed, in a round after the first.                    *)
DeadInsidePattern ==
    /\ cpu_type = "CPU_45GS02"
    /\ pass >= 1
    /\ pc = "Jumps"
    /\ \E i \in Positions :
           /\ i + 3 <= Len(prog)
           /\ prog[i].opcode = "LDZ" /\ ~prog[i].is_dead
           /\ prog[i + 1].opcode = "STZ"
           /\ prog[i + 2].opcode = "LDA" /\ prog[i + 2].is_dead
           /\ prog[i + 3].opcode = "STZ"

MaxInlineSize == 30

Defines(p, s) == p[s].label \notin {NULL, ""}

(* In p the JSR at c is the only reference to the label defined at s, the  *)
(* subroutine returns at e before any other label, it is small, has no     *)
(* nested call, and nothing of it nor the call site is no_optimize.        *)
Eligible(p, c, s, e) ==
    /\ c \in 1..Len(p) /\ s \in 1..Len(p) /\ e \in (s + 1)..Len(p)
    /\ c \notin s..e
    /\ Defines(p, s)
    /\ p[c].opcode = "JSR" /\ p[c].operand = p[s].label
    /\ \A k \in 1..Len(p) : k # c => p[k].operand # p[s].label
    /\ p[e].opcode = "RTS"
    /\ \A k \in (s + 1)..(e - 1) : p[k].opcode # "RTS" /\ ~Defines(p, k)
    /\ e - s <= MaxInlineSize
    /\ \A k \in (s + 1)..e : p[k].opcode # "JSR"
    /\ ~p[c].no_optimize
    /\ \A k \in s..e : ~p[k].no_optimize

IsLiveInstruction(r) == ~r.is_dead /\ r.opcode \notin {NULL, ""}

(* The live body instructions of the subroutine, in their order.           *)
LiveBody(p, s, e) == SelectSeq(SubSeq(p, s + 1, e - 1), IsLiveInstruction)

(* q is p with the subroutine s..e inlined at the call site c.             *)
InlinedAt(p, q, c, s, e) ==
    LET body == LiveBody(p, s, e)
        n    == Len(body)
        at(k) == IF k <= c THEN k ELSE k + n
    IN  /\ Len(q) = Len(p) + n
        /\ q[at(c)].is_dead /\ q[at(s)].is_dead /\ q[at(e)].is_dead
        /\ \A m \in 1..n :
               /\ ~q[c + m].is_dead
               /\ q[c + m].opcode = body[m].opcode
               /\ q[c + m].operand = body[m].operand
        /\ \A k \in 1..Len(p) : (k # c /\ k \notin s..e) => q[at(k)] = p[k]

InliningStep23 ==
    pc = "Inlining" =>
        \A c, s, e \in Positions :
            Eligible(prog, c, s, e) => InlinedAt(prog, prog', c, s, e)

NothingInlined ==
    /\ Len(prog') = Len(prog)
    /\ \A i \in Positions :
           [prog'[i] EXCEPT !.is_branch_target = FALSE]
               = [prog[i] EXCEPT !.is_branch_target = FALSE]
    /\ optimizations' = optimizations

InliningStep24 ==
    pc = "Inlining" =>
        ((\A c, s, e \in Positions : ~Eligible(prog, c, s, e)) => NothingInlined)

(* C24: inlining eligibility: when no subroutine of the program is called  *)
(* exactly once by a JSR, returns before the next label, is small, free of *)
(* nested calls and outside every no_optimize region, the inlining attempt *)
(* changes no record and not the counter (InliningStep24 is the step).     *)
InliningEligibility == [][InliningStep24]_vars

(* The inlining attempt has run on a program whose subroutine is called    *)
(* twice.                                                                  *)
CalledTwiceAttempted ==
    /\ pc = "RoundStart"
    /\ sched = << "Inlining" >>
    /\ \A c, s, e \in Positions : ~Eligible(prog, c, s, e)
    /\ \E c1, c2, s, e \in Positions :
           /\ c1 < c2 /\ s < e
           /\ prog[c1].opcode = "JSR" /\ prog[c2].opcode = "JSR"
           /\ Defines(prog, s)
           /\ prog[c1].operand = prog[s].label /\ prog[c2].operand = prog[s].label
           /\ prog[e].opcode = "RTS"
    /\ \A i \in Positions : ~prog[i].is_dead

(* strstr(operand, name) over the label names the model uses: the pairs    *)
(* << name, operand >> in which the name is a proper part of the operand.  *)
ProperSubstring == { << "loop", "loop2" >> }

(* The operand of the record at i contains, without being equal to it,     *)
(* the name of a label the program defines.                                *)
ContainsOtherLabel(p, i) ==
    \E s \in 1..Len(p) :
        Defines(p, s) /\ << p[s].label, p[i].operand >> \in ProperSubstring

(* Under exact matching the jump at i goes to the record right behind it.  *)
ExactJumpToNext(p, i) ==
    /\ p[i].opcode = "JMP"
    /\ i < Len(p)
    /\ Defines(p, i + 1)
    /\ p[i].operand = p[i + 1].label

JumpsStep25 ==
    pc = "Jumps" =>
        \A i \in Positions :
            (ContainsOtherLabel(prog, i) /\ ~prog[i].is_dead /\ prog'[i].is_dead)
                => ExactJumpToNext(prog, i)

(* C25: inexact label matching never causes a rewrite: where a label name  *)
(* is a proper part of another (loop in loop2), the jump pass kills no     *)
(* record naming the longer label that exact matching of label names would *)
(* leave alone (JumpsStep25 is the step).                                  *)
InexactMatchingHarmless == [][JumpsStep25]_vars

(* In p the four records from i are LDA #v; STA a; LDA #w; STA b, all      *)
(* optimizable, the first one alive, and no other record of p is a load    *)
(* of A or Z.                                                              *)
StoreGroup(p, i) ==
    /\ i + 3 <= Len(p)
    /\ ~p[i].is_dead
    /\ \A k \in i..(i + 3) : ~p[k].no_optimize
    /\ p[i].opcode = "LDA" /\ p[i + 1].opcode = "STA"
    /\ p[i + 2].opcode = "LDA" /\ p[i + 3].opcode = "STA"
    /\ IsImmediate(p[i].operand) /\ IsImmediate(p[i + 2].operand)
    /\ \A k \in 1..Len(p) : k \notin i..(i + 3) => p[k].opcode \notin {"LDA", "LDZ"}

(* q has the group of p at i folded into LDZ #v; STZ a; STZ b.             *)
Folded(p, q, i) ==
    /\ q[i].opcode = "LDZ" /\ q[i].operand = p[i].operand /\ ~q[i].is_dead
    /\ q[i + 1].opcode = "STZ" /\ q[i + 1].operand = p[i + 1].operand
    /\ q[i + 2].is_dead
    /\ q[i + 3].opcode = "STZ" /\ q[i + 3].operand = p[i + 3].operand

Cpu45gs02Step26 ==
    pc = "Cpu45gs02" /\ is_45gs02 =>
        \A i \in Positions :
            StoreGroup(prog, i)
                => IF prog[i].operand = prog[i + 2].operand
                   THEN Folded(prog, prog', i)
                   ELSE \A k \in i..(i + 3) : prog'[k] = prog[k]

SameIdentity(a, b) ==
    /\ a.type = b.type
    /\ a.line_num = b.line_num
    /\ a.label = b.label
    /\ a.comment = b.comment
    /\ a.is_local_label = b.is_local_label
    /\ a.no_optimize = b.no_optimize

SameText(a, b) == a.opcode = b.opcode /\ a.operand = b.operand

FrameStep27 ==
    pc \in RoundPcs =>
        /\ Len(prog') = Len(prog)
        /\ \A i \in Positions :
               /\ SameIdentity(prog[i], prog'[i])
               /\ SameText(prog[i], prog'[i]) \/ pc \in {"Cpu65c02", "Cpu45gs02"}
               /\ cpu_type = "CPU_6502"
                      => prog'[i] \in {prog[i], [prog[i] EXCEPT !.is_dead = TRUE]}

(* C27: frame of the scheduler rounds: a round keeps the number and order  *)
(* of the records and their label, comment, line number, is_local_label    *)
(* and no_optimize; opcode and operand change only in the two CPU passes;  *)
(* on the 6502 a record changes only by is_dead becoming true              *)
(* (FrameStep27 is the step).                                              *)
RoundFrame == [][FrameStep27]_vars

(* On the 6502 a round has killed a record, and the run is over.           *)
KilledOn6502 ==
    /\ cpu_type = "CPU_6502"
    /\ pc = "Done"
    /\ pass >= 2
    /\ \E i \in Positions : prog[i].is_dead /\ prog[i].comment # NULL

DefinesLabel(r) == r.label \notin {NULL, ""}

FlagsFollowLabels(p) ==
    \A i \in 1..Len(p) : p[i].is_branch_target <=> DefinesLabel(p[i])

AnalysisPcs == {"Inlining", "RoundStart"}

Referenced(p, i) == \E j \in 1..Len(p) : p[j].operand = p[i].label

BranchTargetStep28 ==
    /\ pc \in AnalysisPcs =>
           /\ FlagsFollowLabels(prog')
           /\ analyze_call_flow_ast(analyze_call_flow_ast(prog))
                  = analyze_call_flow_ast(prog)
    /\ pc \notin AnalysisPcs =>
           \A i \in Positions : prog'[i].is_branch_target = prog[i].is_branch_target
    /\ pc = "Reading" /\ Len(prog') > Len(prog) => ~prog'[Len(prog')].is_branch_target
    /\ pc = "RoundStart" /\ pass >= 1 => prog' = prog

(* C28: after control-flow analysis a record is a branch target exactly    *)
(* when it defines a label, referenced or not; the analysis run twice      *)
(* gives the flags of one run; and no step other than the analysis (the    *)
(* tokenizer included) changes is_branch_target (BranchTargetStep28 is     *)
(* the step).                                                              *)
BranchTargetFlags == [][BranchTargetStep28]_vars

(* The analysis has run in two rounds; an unreferenced label is flagged    *)
(* and a record without a label is not.                                    *)
UnreferencedLabelFlagged ==
    /\ pc = "Done"
    /\ pass >= 2
    /\ \E i \in Positions :
           DefinesLabel(prog[i]) /\ ~Referenced(prog, i) /\ prog[i].is_branch_target
    /\ \E i \in Positions : ~DefinesLabel(prog[i]) /\ ~prog[i].is_branch_target

LoadedRegister(op) ==
    CASE op = "LDA" -> "a" [] op = "LDX" -> "x" [] op = "LDY" -> "y" [] op = "LDZ" -> "z"

ImmediateLoad(r) ==
    /\ r.opcode \in {"LDA", "LDX", "LDY", "LDZ"}
    /\ r.operand # NULL
    /\ IsImmediate(r.operand)

(* The tracker's registers and flags right after node i.                   *)
RegistersAfter(p, i) == update_register_state(p[i], TrackerBefore(p, i))

FlagsAfter(p, i) == update_flag_state(p[i], TrackerBefore(p, i), FlagsBefore(p, i))

(* C29: the tracker's step over LDA, LDX, LDY or LDZ with an immediate     *)
(* operand makes that register known with the operand as its value,        *)
(* makes the Zero flag known and equal to (operand is #$00 or #0), and     *)
(* leaves the Negative flag unknown.                                       *)
ImmediateLoadStep ==
    \A i \in Positions :
        ImmediateLoad(prog[i]) =>
            LET reg   == RegistersAfter(prog, i)[LoadedRegister(prog[i].opcode)]
                flags == FlagsAfter(prog, i)
            IN  /\ reg.known
                /\ reg.value = prog[i].operand
                /\ flags.z_flag_known
                /\ flags.z_flag_set = (prog[i].operand \in {"#$00", "#0"})
                /\ ~flags.n_known

(* The node the reader has just appended.                                  *)
LastNode(p) == p[Len(p)]

LabelHoodStep ==
    pc = "Reading" /\ input # << >> =>
        /\ Head(input).col0 = "tok" =>
               /\ LastNode(prog').type = "NODE_LABEL"
               /\ LastNode(prog').label = Head(input).label
        /\ Head(input).col0 = "bare" =>
               /\ LastNode(prog').label \in {NULL, ""}
               /\ LastNode(prog').opcode = Head(input).opcode
               /\ LastNode(prog').operand
                      = (IF Head(input).operand = NULL THEN "" ELSE Head(input).operand)

(* C30: in the generic (colon-terminated) dialect a first-column token is  *)
(* the record's label only if a colon follows it; an instruction written   *)
(* at column 0 yields its opcode and operand and no label (LabelHoodStep   *)
(* is the step).                                                           *)
TokenizerLabelHood == [][LabelHoodStep]_vars

=============================================================================
